---- MODULE Spec2Model ----
(***************************************************************************)
(* Model of server/scripts/calculate_zscore_tiingo.py: the 3-year Z-Score  *)
(* of a closed-end fund's premium/discount, computed from two Tiingo price *)
(* series and written to the etf_static table.                             *)
(*                                                                         *)
(* Representation.                                                         *)
(*   - A date string 'YYYY-MM-DD' is the integer YYYYMMDD (same order,     *)
(*     same equality).  pd.to_datetime turns it into a day ordinal (days   *)
(*     since 1970-01-01), strftime('%Y-%m-%d') turns an ordinal back.      *)
(*   - A close is an integer.  The statistics are computed as the code    *)
(*     computes them, in float64: every sum, difference, product,         *)
(*     quotient and square root is the exact value rounded to the nearest *)
(*     double, and the sums add in the order numpy (or bottleneck) adds.  *)
(*     Infinities, NaN and subnormal numbers do not occur for the closes  *)
(*     of the model and have no representation.                           *)
(*   - A record of a price series is [date, close]; the other Tiingo       *)
(*     fields (open, high, low, volume) are never read by the calculation. *)
(***************************************************************************)
EXTENDS Integers, Sequences, FiniteSets, TLC

VARIABLES
    pc,            \* position of the run
    has_pd_np,     \* the installed pandas still has the attribute pandas.np
    merge_in_left_order, \* the installed pandas (2.2 or later) merges in the order of the left rows
    use_bottleneck, \* Series.mean() is computed by bottleneck
    price_data,    \* fund series (list of records), in input order
    nav_data,      \* NAV series (list of records), in input order
    current_date,  \* the as-of date string
    merged,        \* the aligned rows after the sort (line 125)
    window_data,   \* the 3-year window (line 139)
    result,        \* what calculate_z_score_3yr returned, or that it raised
    base_result,   \* SpecCalc: the result for the input order first given
    base_merged,   \* SpecCalc: the aligned rows for the input order first given
    base_price_data, \* SpecCalc: the fund series in the order first given
    base_nav_data, \* SpecCalc: the NAV series in the order first given
    tickers,       \* main: the list of (ticker, nav_symbol) pairs
    idx,           \* main: index of the pair being processed
    db,            \* etf_static: ticker -> row, or NoRow
    conn,          \* the psycopg2 connection: "none", "ok", "aborted", "closed"
    clock,         \* datetime.now(), a counter
    outcome        \* main: how the latest call of fetch_and_store_zscore went

vars == <<pc, has_pd_np, merge_in_left_order, use_bottleneck, price_data, nav_data,
          current_date, merged, window_data, result, base_result, base_merged,
          base_price_data, base_nav_data, tickers, idx, db, conn, clock, outcome>>

----------------------------------------------------------------------------
(* Bounds of the model and constants of the program. *)

MinObs == 252

LookbackYears == 3

MaxExtra == 1

MaxPairs == 2

----------------------------------------------------------------------------
(* Calendar: pandas Timestamp arithmetic on dates. *)

IsLeap(y) == (y % 4 = 0 /\ y % 100 # 0) \/ y % 400 = 0

DaysInMonth(y, m) ==
    IF m = 2 THEN (IF IsLeap(y) THEN 29 ELSE 28)
    ELSE IF m \in {4, 6, 9, 11} THEN 30 ELSE 31

\* Days since 1970-01-01 of the civil date y-m-d (proleptic Gregorian).
DaysFromCivil(y, m, d) ==
    LET yy  == IF m <= 2 THEN y - 1 ELSE y
        era == yy \div 400
        yoe == yy - era * 400
        mp  == IF m > 2 THEN m - 3 ELSE m + 9
        doy == (153 * mp + 2) \div 5 + d - 1
        doe == yoe * 365 + yoe \div 4 - yoe \div 100 + doy
    IN  era * 146097 + doe - 719468

\* The civil date <<y, m, d>> of a day ordinal.
CivilFromDays(z) ==
    LET zz  == z + 719468
        era == zz \div 146097
        doe == zz - era * 146097
        yoe == (doe - doe \div 1460 + doe \div 36524 - doe \div 146096) \div 365
        doy == doe - (365 * yoe + yoe \div 4 - yoe \div 100)
        mp  == (5 * doy + 2) \div 153
        d   == doy - (153 * mp + 2) \div 5 + 1
        m   == IF mp < 10 THEN mp + 3 ELSE mp - 9
        y   == yoe + era * 400 + (IF m <= 2 THEN 1 ELSE 0)
    IN  <<y, m, d>>

\* pd.to_datetime('YYYY-MM-DD')
to_datetime(s) == DaysFromCivil(s \div 10000, (s \div 100) % 100, s % 100)

\* The date string of the civil date c = <<y, m, d>>.
DateString(c) == c[1] * 10000 + c[2] * 100 + c[3]

\* Timestamp.strftime('%Y-%m-%d')
strftime(t) == DateString(CivilFromDays(t))

\* The day ordinal of y-m-d, the day clamped to the length of the month.
ClampedDate(y, m, d) ==
    DaysFromCivil(y, m, IF d > DaysInMonth(y, m) THEN DaysInMonth(y, m) ELSE d)

\* The civil date c = <<y, m, d>> moved k years back.
OffsetYears(c, k) == ClampedDate(c[1] - k, c[2], c[3])

\* t - pd.DateOffset(years=k): same month and day k years earlier, the day
\* clamped to the length of the month (Feb 29 -> Feb 28).
MinusYears(t, k) == OffsetYears(CivilFromDays(t), k)

----------------------------------------------------------------------------
(* Naturals of any size, as the sequence of their digits in base 2^15,     *)
(* lowest digit first and no leading zero digit; <<>> is 0.                *)

\* Bits of a digit.
LimbBits == 15

Base == 2 ^ LimbBits


\* TRUE, once v has been computed: the steps of a loop are computed in order.
Computed(v) == v = v

Limb(a, i) == IF i >= 1 /\ i <= Len(a) THEN a[i] ELSE 0

RECURSIVE BigTrim(_)
BigTrim(a) ==
    IF a = <<>> THEN a
    ELSE IF a[Len(a)] = 0 THEN BigTrim(SubSeq(a, 1, Len(a) - 1)) ELSE a

RECURSIVE BigOfNat(_)
BigOfNat(n) == IF n = 0 THEN <<>> ELSE <<n % Base>> \o BigOfNat(n \div Base)

RECURSIVE AddFrom(_, _, _, _)
AddFrom(a, b, i, c) ==
    IF i > Len(a) /\ i > Len(b)
    THEN IF c = 0 THEN <<>> ELSE <<c>>
    ELSE LET s == Limb(a, i) + Limb(b, i) + c
         IN  <<s % Base>> \o AddFrom(a, b, i + 1, s \div Base)

BigAdd(a, b) == AddFrom(a, b, 1, 0)

RECURSIVE SubFrom(_, _, _, _)
SubFrom(a, b, i, br) ==
    IF i > Len(a) THEN <<>>
    ELSE LET d == a[i] - Limb(b, i) - br
         IN  IF d < 0 THEN <<d + Base>> \o SubFrom(a, b, i + 1, 1)
             ELSE <<d>> \o SubFrom(a, b, i + 1, 0)

\* a - b for a >= b
BigSub(a, b) == BigTrim(SubFrom(a, b, 1, 0))

RECURSIVE CmpFrom(_, _, _)
CmpFrom(a, b, i) ==
    IF i = 0 THEN 0
    ELSE IF a[i] > b[i] THEN 1
    ELSE IF a[i] < b[i] THEN -1
    ELSE CmpFrom(a, b, i - 1)

BigCmp(a, b) ==
    IF Len(a) > Len(b) THEN 1
    ELSE IF Len(a) < Len(b) THEN -1
    ELSE CmpFrom(a, b, Len(a))

RECURSIVE MulSmallFrom(_, _, _, _)
MulSmallFrom(a, k, i, c) ==
    IF i > Len(a)
    THEN IF c = 0 THEN <<>> ELSE <<c>>
    ELSE LET p == a[i] * k + c
         IN  <<p % Base>> \o MulSmallFrom(a, k, i + 1, p \div Base)

\* a * k for 0 < k <= Base
BigMulSmall(a, k) == MulSmallFrom(a, k, 1, 0)

BigShlLimbs(a, q) == IF a = <<>> THEN a ELSE [i \in 1..q |-> 0] \o a

RECURSIVE MulFrom(_, _, _)
MulFrom(a, b, i) ==
    IF i > Len(b) THEN <<>>
    ELSE BigAdd(IF b[i] = 0 THEN <<>> ELSE BigShlLimbs(BigMulSmall(a, b[i]), i - 1),
                MulFrom(a, b, i + 1))

BigMul(a, b) == MulFrom(a, b, 1)

\* a * 2^k
BigShl(a, k) ==
    IF k = 0 THEN a
    ELSE BigShlLimbs(BigMulSmall(a, 2 ^ (k % LimbBits)), k \div LimbBits)

RECURSIVE DivSmallFrom(_, _, _, _)
DivSmallFrom(a, d, i, r) ==
    IF i = 0 THEN <<<<>>, r>>
    ELSE LET cur  == r * Base + a[i]
             rest == DivSmallFrom(a, d, i - 1, cur % d)
         IN  <<Append(rest[1], cur \div d), rest[2]>>

\* <<a div d, a mod d>> for 0 < d < Base
BigDivSmall(a, d) ==
    LET qr == DivSmallFrom(a, d, Len(a), 0)
    IN  <<BigTrim(qr[1]), qr[2]>>

\* a div 2^k
BigShr(a, k) ==
    LET q == k \div LimbBits
    IN  IF q >= Len(a) THEN <<>>
        ELSE BigDivSmall(SubSeq(a, q + 1, Len(a)), 2 ^ (k % LimbBits))[1]

RECURSIVE BitLen(_)
BitLen(n) == IF n = 0 THEN 0 ELSE 1 + BitLen(n \div 2)

BigBitLen(a) == IF a = <<>> THEN 0 ELSE LimbBits * (Len(a) - 1) + BitLen(a[Len(a)])

RECURSIVE LowZeros(_)
LowZeros(n) == IF n % 2 = 1 THEN 0 ELSE 1 + LowZeros(n \div 2)

RECURSIVE BigLowZerosFrom(_, _)
BigLowZerosFrom(a, i) ==
    IF a[i] = 0 THEN LimbBits + BigLowZerosFrom(a, i + 1) ELSE LowZeros(a[i])

\* number of trailing zero bits of a # 0
BigLowZeros(a) == BigLowZerosFrom(a, 1)

\* bit k of a, bit 0 the lowest
BigBit(a, k) == (Limb(a, k \div LimbBits + 1) \div 2 ^ (k % LimbBits)) % 2

\* One step of binary long division, the next bit of n brought down: q2 is
\* twice the quotient so far, r2 twice the remainder plus the bit.
LongDivSubtract(q2, r2, d) ==
    IF BigCmp(r2, d) >= 0 THEN <<BigAdd(q2, <<1>>), BigSub(r2, d)>> ELSE <<q2, r2>>

LongDivStep(n, d, i, qr) ==
    LongDivSubtract(BigMulSmall(qr[1], 2),
                    BigAdd(BigMulSmall(qr[2], 2), IF BigBit(n, i) = 1 THEN <<1>> ELSE <<>>),
                    d)

\* The steps for bits hi down to lo, hi >= lo.
RECURSIVE LongDivRange(_, _, _, _, _)
LongDivRange(n, d, hi, lo, qr) ==
    IF hi = lo THEN LongDivStep(n, d, hi, qr)
    ELSE IF Computed(qr)
    THEN LongDivRange(n, d, (hi + lo + 1) \div 2 - 1, lo,
                      LongDivRange(n, d, hi, (hi + lo + 1) \div 2, qr))
    ELSE qr

\* <<n div d, n mod d>> by long division over the top lowest bits of n.
LongDiv(n, d, top) ==
    IF top <= 0 THEN <<<<>>, n>>
    ELSE LongDivRange(n, d, top - 1, 0, <<<<>>, BigShr(n, top)>>)

\* <<qr[1], whether qr[2] is zero>>
WithExact(qr, zero) == <<qr[1], qr[2] = zero>>

\* <<n div d, whether n mod d = 0>> for d # 0
BigDivMod(n, d) ==
    IF Len(d) = 1 THEN WithExact(BigDivSmall(n, d[1]), 0)
    ELSE WithExact(LongDiv(n, d, BigBitLen(n) - BigBitLen(d) + 1), <<>>)

\* One step of the binary square root: bit i of the root is decided.  sr is
\* <<s, r>> with r = n - s * s, and t = (s + 2^i)^2 - s^2.
SqrtSubtract(i, sr, t) ==
    IF BigCmp(sr[2], t) >= 0
    THEN <<BigAdd(sr[1], BigShl(<<1>>, i)), BigSub(sr[2], t)>>
    ELSE sr

SqrtStep(i, sr) ==
    SqrtSubtract(i, sr, BigAdd(BigShl(sr[1], i + 1), BigShl(<<1>>, 2 * i)))

RECURSIVE SqrtRange(_, _, _)
SqrtRange(hi, lo, sr) ==
    IF hi = lo THEN SqrtStep(hi, sr)
    ELSE IF Computed(sr)
    THEN SqrtRange((hi + lo + 1) \div 2 - 1, lo, SqrtRange(hi, (hi + lo + 1) \div 2, sr))
    ELSE sr

\* <<s, whether n = s * s>> for s the floor of the square root of n
BigSqrt(n) == WithExact(SqrtRange((BigBitLen(n) + 1) \div 2, 0, <<<<>>, n>>), <<>>)

----------------------------------------------------------------------------
(* float64 arithmetic: a finite double is sgn * m * 2^e with m odd and     *)
(* below 2^53 (m = <<>> for 0.0); every operation gives the exact result   *)
(* rounded to the nearest double, ties to even.                            *)

\* Bits of the significand of a double.
MantBits == 53

\* The double sgn * m * 2^e.
Float(s, m, e) == [sgn |-> s, m |-> m, e |-> e]

FZero == Float(1, <<>>, 0)

IsZero(x) == x.m = <<>>

\* The double s * m * 2^e for m # 0 with tz trailing zero bits.
Shifted(s, m, e, tz) == Float(s, BigShr(m, tz), e + tz)

\* The double s * m * 2^e for m below 2^53, m made odd.
Normalize(s, m, e) ==
    IF m = <<>> THEN FZero
    ELSE IF m[1] % 2 = 1 THEN Float(s, m, e)
    ELSE Shifted(s, m, e, BigLowZeros(m))

\* s * q * 2^e rounded up to the next significand when more than half a unit
\* was cut off, or exactly half and q is odd.
RoundUp(s, q, e, half, rest) ==
    Normalize(s, IF half /\ (rest \/ BigBit(q, 0) = 1) THEN BigAdd(q, <<1>>) ELSE q, e)

\* The k lowest bits of m are cut off.
RoundAt(s, m, e, k) ==
    IF k <= 0 THEN Normalize(s, m, e)
    ELSE RoundUp(s, BigShr(m, k), e + k, BigBit(m, k - 1) = 1, BigLowZeros(m) < k - 1)

\* The double nearest to s * m * 2^e, ties to even.
Round(s, m, e) == RoundAt(s, m, e, BigBitLen(m) - MantBits)

\* float(n)
FOfInt(n) == Normalize(IF n < 0 THEN -1 ELSE 1, BigOfNat(IF n < 0 THEN -n ELSE n), 0)

FNeg(x) == IF IsZero(x) THEN x ELSE Float(-x.sgn, x.m, x.e)

\* sx * mx * 2^e + sy * my * 2^e, c the comparison of mx with my
AddSigned(sx, mx, sy, my, e, c) ==
    Round(IF c >= 0 THEN sx ELSE sy,
          IF sx = sy THEN BigAdd(mx, my)
          ELSE IF c = 0 THEN <<>>
          ELSE IF c > 0 THEN BigSub(mx, my) ELSE BigSub(my, mx),
          e)

\* sx * mx * 2^e + sy * my * 2^e
AddAligned(sx, mx, sy, my, e) == AddSigned(sx, mx, sy, my, e, BigCmp(mx, my))

\* x + y for x and y not 0, e the lower of their exponents
AddAt(x, y, e) == AddAligned(x.sgn, BigShl(x.m, x.e - e), y.sgn, BigShl(y.m, y.e - e), e)

\* x + y
FAdd(x, y) ==
    IF IsZero(x) THEN y
    ELSE IF IsZero(y) THEN x
    ELSE AddAt(x, y, IF x.e < y.e THEN x.e ELSE y.e)

\* x - y
FSub(x, y) == FAdd(x, FNeg(y))

\* x * y
FMul(x, y) ==
    IF IsZero(x) \/ IsZero(y) THEN FZero
    ELSE Round(x.sgn * y.sgn, BigMul(x.m, y.m), x.e + y.e)

\* Twice q, and a last bit that tells whether q is inexact.
WithSticky(qr) == BigAdd(BigMulSmall(qr[1], 2), IF qr[2] THEN <<>> ELSE <<1>>)

\* x / y with the significand of x shifted left by k bits
DivAt(x, y, k) ==
    Round(x.sgn * y.sgn, WithSticky(BigDivMod(BigShl(x.m, k), y.m)), x.e - y.e - k - 1)

\* x / y, y # 0: the quotient to 55 bits or more, and a last bit that
\* tells whether the division left a remainder.
FDiv(x, y) ==
    IF IsZero(x) THEN FZero
    ELSE DivAt(x, y, IF MantBits + 2 + BigBitLen(y.m) > BigBitLen(x.m)
                     THEN MantBits + 2 + BigBitLen(y.m) - BigBitLen(x.m) ELSE 0)

\* np.sqrt(x) with the significand of x shifted left by k bits, x.e - k even
SqrtAt(x, k) == Round(1, WithSticky(BigSqrt(BigShl(x.m, k))), (x.e - k) \div 2 - 1)

\* The shift k0, or k0 + 1, that leaves an even exponent.
EvenShift(e, k0) == k0 + ((e - k0) % 2)

\* np.sqrt(x), x >= 0: the root to 55 bits or more, and a last bit that tells
\* whether the root is inexact.
FSqrt(x) ==
    IF IsZero(x) THEN FZero
    ELSE SqrtAt(x, EvenShift(x.e, IF 2 * MantBits + 4 > BigBitLen(x.m)
                                  THEN 2 * MantBits + 4 - BigBitLen(x.m) ELSE 0))

FAbs(x) == Float(1, x.m, x.e)

\* whether x is 0 or below
NotPositive(x) == IsZero(x) \/ x.sgn = -1

\* x <= y
FLessEq(x, y) == NotPositive(FSub(x, y))

----------------------------------------------------------------------------
(* calculate_z_score_3yr, lines 82-196. *)

None == [status |-> "None"]

Dates(series) == {series[i].date : i \in DOMAIN series}

\* The records of series[lo..hi] under each of their dates, in series order.
RECURSIVE RowsByDate(_, _, _)
RowsByDate(series, lo, hi) ==
    IF lo > hi THEN <<>>
    ELSE IF lo = hi THEN (series[lo].date :> <<series[lo]>>)
    ELSE LET mid == (lo + hi) \div 2
             L == RowsByDate(series, lo, mid)
             R == RowsByDate(series, mid + 1, hi)
         IN  [d \in (DOMAIN L) \cup (DOMAIN R) |->
                (IF d \in DOMAIN L THEN L[d] ELSE <<>>) \o
                (IF d \in DOMAIN R THEN R[d] ELSE <<>>)]

\* The joined rows of price[lo..hi], in the order of the left rows.
RECURSIVE JoinRange(_, _, _, _)
JoinRange(price, byDate, lo, hi) ==
    IF lo > hi THEN <<>>
    ELSE IF lo = hi
    THEN LET p == price[lo]
             m == IF p.date \in DOMAIN byDate THEN byDate[p.date] ELSE <<>>
         IN  [j \in 1..Len(m) |-> [date |-> p.date,
                                     close_price |-> p.close,
                                     close_nav |-> m[j].close]]
    ELSE LET mid == (lo + hi) \div 2
         IN  JoinRange(price, byDate, lo, mid) \o JoinRange(price, byDate, mid + 1, hi)

\* The dates of series[lo..hi], each once, in the order in which they first
\* occur: the order of the labels the join gives to the keys of the left
\* frame.
RECURSIVE KeysInOrder(_, _, _)
KeysInOrder(series, lo, hi) ==
    IF lo > hi THEN <<>>
    ELSE IF lo = hi THEN <<series[lo].date>>
    ELSE LET mid == (lo + hi) \div 2
             L == KeysInOrder(series, lo, mid)
             seen == {L[i] : i \in DOMAIN L}
         IN  L \o SelectSeq(KeysInOrder(series, mid + 1, hi), LAMBDA d : d \notin seen)

\* The records under keys[lo..hi], key after key.
RECURSIVE GroupRange(_, _, _, _)
GroupRange(keys, byDate, lo, hi) ==
    IF lo > hi THEN <<>>
    ELSE IF lo = hi THEN byDate[keys[lo]]
    ELSE LET mid == (lo + hi) \div 2
         IN  GroupRange(keys, byDate, lo, mid) \o GroupRange(keys, byDate, mid + 1, hi)

\* The left rows as the join of a pandas older than 2.2 goes through them:
\* grouped by date, the dates in the order of their first occurrence, the
\* records of one date in the order of the series.
GroupedByDate(series) ==
    GroupRange(KeysInOrder(series, 1, Len(series)), RowsByDate(series, 1, Len(series)),
               1, Cardinality(Dates(series)))

\* pd.merge(price_df, nav_df, on='date', suffixes=('_price', '_nav')): the inner
\* join on the date string, one row per pair of records of equal date; for one
\* left row the right rows in their order.  From pandas 2.2 on the rows follow
\* the order of the left rows (left_order); before, they come grouped by date.
Merge(price, nav, left_order) ==
    JoinRange(IF left_order THEN price ELSE GroupedByDate(price),
              RowsByDate(nav, 1, Len(nav)), 1, Len(price))

\* Mutant: only the fund close is required to be positive.
PositiveCloses_PriceOnly(rows) == SelectSeq(rows, LAMBDA r : r.close_price > 0)

\* merged[(merged['close_price'] > 0) & (merged['close_nav'] > 0)]
PositiveCloses(rows) ==
    SelectSeq(rows, LAMBDA r : r.close_price > 0 /\ r.close_nav > 0)

\* merged['date'] = pd.to_datetime(merged['date'])
ParseDates(rows) ==
    [i \in DOMAIN rows |-> [rows[i] EXCEPT !.date = to_datetime(@)]]

\* numpy sorts a range of 17 elements or fewer by insertion.
SmallQuicksort == 16

\* The index array a with the elements at positions i and j exchanged.
Swap(a, i, j) == [a EXCEPT ![i] = a[j], ![j] = a[i]]

RECURSIVE ScanUp(_, _, _, _, _)

\* The first such position in lo..mid, found, or else the first in mid+1..hi.
ScanUpFrom(v, a, vp, mid, hi, found) ==
    IF found <= mid THEN found ELSE ScanUp(v, a, vp, mid + 1, hi)

\* do ++pi while v[*pi] < vp: the first position in lo..hi whose key is not
\* less than vp, or hi + 1.
ScanUp(v, a, vp, lo, hi) ==
    IF lo > hi THEN hi + 1
    ELSE IF lo = hi THEN (IF v[a[lo]] < vp THEN hi + 1 ELSE lo)
    ELSE ScanUpFrom(v, a, vp, (lo + hi) \div 2, hi,
                    ScanUp(v, a, vp, lo, (lo + hi) \div 2))

RECURSIVE ScanDown(_, _, _, _, _)

\* The last such position in mid+1..hi, found, or else the last in lo..mid.
ScanDownFrom(v, a, vp, lo, mid, found) ==
    IF found > mid THEN found ELSE ScanDown(v, a, vp, lo, mid)

\* do --pj while vp < v[*pj]: the last position in lo..hi whose key is not
\* greater than vp, or lo - 1.
ScanDown(v, a, vp, lo, hi) ==
    IF lo > hi THEN lo - 1
    ELSE IF lo = hi THEN (IF vp < v[a[lo]] THEN lo - 1 ELSE lo)
    ELSE ScanDownFrom(v, a, vp, lo, (lo + hi) \div 2,
                      ScanDown(v, a, vp, (lo + hi) \div 2 + 1, hi))

\* if v[*j] < v[*i]: swap
InOrderAt(v, a, i, j) == IF v[a[j]] < v[a[i]] THEN Swap(a, i, j) ELSE a

\* The median of the keys at pl, pm and pr is brought to pm.
MedianOfThree(v, a, pl, pm, pr) ==
    InOrderAt(v, InOrderAt(v, InOrderAt(v, a, pl, pm), pm, pr), pl, pm)

\* The two scans have stopped at pi and pj: they have met, or the two
\* elements are exchanged.
Exchange(a, pi, pj) ==
    IF pi >= pj THEN [a |-> a, pi |-> pi, pj |-> pj, done |-> TRUE]
    ELSE [a |-> Swap(a, pi, pj), pi |-> pi, pj |-> pj, done |-> FALSE]

\* One round of the partition loop of a range pl..pr with pivot key vp.
ScanStep(v, vp, pl, pr, st) ==
    IF st.done THEN st
    ELSE Exchange(st.a, ScanUp(v, st.a, vp, st.pi + 1, pr - 1),
                  ScanDown(v, st.a, vp, pl, st.pj - 1))

\* At most count rounds of the partition loop.
RECURSIVE ScanSteps(_, _, _, _, _, _)
ScanSteps(v, vp, pl, pr, st, count) ==
    IF st.done THEN st
    ELSE IF count <= 1 THEN ScanStep(v, vp, pl, pr, st)
    ELSE ScanSteps(v, vp, pl, pr, ScanSteps(v, vp, pl, pr, st, count \div 2),
                   count - count \div 2)

\* The pivot, kept at pr - 1 during the scans, is put where they met.
PivotBack(st, pr) == [a |-> Swap(st.a, st.pi, pr - 1), pi |-> st.pi]

\* The partition of pl..pr around the key at pm, the median of three.
PartitionAt(v, a, pl, pm, pr) ==
    PivotBack(ScanSteps(v, v[a[pm]], pl, pr,
                        [a |-> Swap(a, pm, pr - 1), pi |-> pl, pj |-> pr - 1, done |-> FALSE],
                        pr - pl),
              pr)

\* The quicksort partition of a range pl..pr of more than 17 elements: the
\* index array after it, and the position pi of the pivot.
Partition(v, a, pl, pr) ==
    PartitionAt(v, MedianOfThree(v, a, pl, pl + (pr - pl) \div 2, pr),
                pl, pl + (pr - pl) \div 2, pr)

\* The element at position from is moved down to position to.
InsertAt(a, from, to) ==
    SubSeq(a, 1, to - 1) \o <<a[from]>> \o SubSeq(a, to, from - 1) \o
    SubSeq(a, from + 1, Len(a))

\* One round of the insertion sort of a range that starts at pl: the element
\* at pi goes below the elements of greater key before it.
InsertStep(v, a, pl, pi) == InsertAt(a, pi, ScanDown(v, a, v[a[pi]], pl, pi - 1) + 1)

\* The rounds for pi = lo .. hi.
RECURSIVE InsertionSort(_, _, _, _, _)
InsertionSort(v, a, pl, lo, hi) ==
    IF lo > hi THEN a
    ELSE IF lo = hi THEN InsertStep(v, a, pl, lo)
    ELSE IF Computed(a)
    THEN InsertionSort(v, InsertionSort(v, a, pl, lo, (lo + hi) \div 2),
                       pl, (lo + hi) \div 2 + 1, hi)
    ELSE a

\* The larger child of heap element j in a heap of n elements that starts
\* after position off.
LargerChild(v, a, off, j, n) ==
    IF j < n /\ v[a[off + j]] < v[a[off + j + 1]] THEN j + 1 ELSE j

RECURSIVE SiftDown(_, _, _, _, _, _)

\* The index tmp sinks below child j of heap element i, or stays at i.
SiftBelow(v, a, off, tmp, i, j, n) ==
    IF v[tmp] < v[a[off + j]]
    THEN SiftDown(v, [a EXCEPT ![off + i] = a[off + j]], off, tmp, j, n)
    ELSE [a EXCEPT ![off + i] = tmp]

\* The index tmp is put into the heap at element i or below.
SiftDown(v, a, off, tmp, i, n) ==
    IF 2 * i > n THEN [a EXCEPT ![off + i] = tmp]
    ELSE SiftBelow(v, a, off, tmp, i, LargerChild(v, a, off, 2 * i, n), n)

\* The heap is built: elements hi down to lo are sifted down.
RECURSIVE BuildHeap(_, _, _, _, _, _)
BuildHeap(v, a, off, n, hi, lo) ==
    IF hi < lo THEN a
    ELSE IF hi = lo THEN SiftDown(v, a, off, a[off + hi], hi, n)
    ELSE IF Computed(a)
    THEN BuildHeap(v, BuildHeap(v, a, off, n, hi, (hi + lo + 1) \div 2),
                   off, n, (hi + lo + 1) \div 2 - 1, lo)
    ELSE a

\* The top of a heap of m elements goes to element m, and what was there is
\* sifted down from the top.
PopHeap(v, a, off, m) ==
    SiftDown(v, [a EXCEPT ![off + m] = a[off + 1]], off, a[off + m], 1, m - 1)

\* The heap is emptied: sizes hi down to lo.
RECURSIVE PopHeaps(_, _, _, _, _)
PopHeaps(v, a, off, hi, lo) ==
    IF hi < lo THEN a
    ELSE IF hi = lo THEN PopHeap(v, a, off, hi)
    ELSE IF Computed(a)
    THEN PopHeaps(v, PopHeaps(v, a, off, hi, (hi + lo + 1) \div 2),
                  off, (hi + lo + 1) \div 2 - 1, lo)
    ELSE a

\* numpy's aheapsort of the range pl..pr.
HeapSort(v, a, pl, pr) ==
    PopHeaps(v, BuildHeap(v, a, pl - 1, pr - pl + 1, (pr - pl + 1) \div 2, 1),
             pl - 1, pr - pl + 1, 2)

RECURSIVE QuickSort(_, _, _, _, _, _)

\* After a partition p of pl..pr: the smaller part is sorted next, the
\* larger part waits on the stack.
SortParts(v, p, pl, pr, cdepth) ==
    IF p.pi - pl < pr - p.pi
    THEN QuickSort(v, QuickSort(v, p.a, pl, p.pi - 1, cdepth, FALSE),
                   p.pi + 1, pr, cdepth, TRUE)
    ELSE QuickSort(v, QuickSort(v, p.a, p.pi + 1, pr, cdepth, FALSE),
                   pl, p.pi - 1, cdepth, TRUE)

\* numpy's aquicksort (introsort) of the range pl..pr of the index array a
\* by the keys v.  A range taken from the stack (popped) whose depth budget
\* cdepth is used up is sorted by heapsort.
QuickSort(v, a, pl, pr, cdepth, popped) ==
    IF popped /\ cdepth < 0 THEN HeapSort(v, a, pl, pr)
    ELSE IF pr - pl > SmallQuicksort
    THEN SortParts(v, Partition(v, a, pl, pr), pl, pr, cdepth - 1)
    ELSE InsertionSort(v, a, pl, pl + 1, pr)

\* npy_get_msb: the position of the highest bit of n.
Msb(n) == BitLen(n) - 1

\* The index array 1, 2, ..., n.
Indices(n) == <<>> \o [i \in 1..n |-> i]

\* np.argsort(v, kind='quicksort'): the positions of the keys v in ascending
\* order of key; the order of positions of equal key is what the introsort
\* leaves.
ArgSort(v) ==
    IF Len(v) = 0 THEN <<>>
    ELSE QuickSort(v, Indices(Len(v)), 1, Len(v), 2 * Msb(Len(v)), TRUE)

\* The rows at the positions the indexer gives, in its order.
Take(rows, indexer) == [i \in DOMAIN rows |-> rows[indexer[i]]]

\* The column 'date' of the rows.
DateKeys(rows) == <<>> \o [i \in DOMAIN rows |-> rows[i].date]

\* merged.sort_values('date'): the rows in the order of an argsort of the
\* dates with the default kind, 'quicksort'.  That sort is not stable: where
\* rows of equal date end up follows from where the dates stand in the
\* frame, and from nothing else in the rows.
SortByDate(rows) ==
    IF Len(rows) = 0 THEN <<>> ELSE Take(rows, ArgSort(DateKeys(rows)))

\* Lines 111-125: the aligned rows.
Aligned(price, nav, left_order) ==
    IF price = <<>> \/ nav = <<>> THEN <<>>
    ELSE SortByDate(ParseDates(PositiveCloses(Merge(price, nav, left_order))))

\* merged[merged['date'] <= current_date]
AvailableData(rows, cur) == SelectSeq(rows, LAMBDA r : r.date <= to_datetime(cur))

RECURSIVE MaxDate(_, _, _)
MaxDate(rows, lo, hi) ==
    IF lo = hi THEN rows[lo].date
    ELSE LET mid == (lo + hi) \div 2
             l == MaxDate(rows, lo, mid)
             r == MaxDate(rows, mid + 1, hi)
         IN  IF r > l THEN r ELSE l

\* available_data['date'].max()
ActualEndDate(avail) == MaxDate(avail, 1, Len(avail))

\* Mutant: the lookback as a number of days (3 * 365), not calendar years.
ThreeYearStartDate_Days(avail) == ActualEndDate(avail) - LookbackYears * 365

\* actual_end_date - pd.DateOffset(years=3)
ThreeYearStartDate(avail) == MinusYears(ActualEndDate(avail), LookbackYears)

\* Lines 139-142.
WindowData(avail) ==
    IF avail = <<>> THEN <<>>
    ELSE LET e == ActualEndDate(avail)
             s == ThreeYearStartDate(avail)
         IN  SelectSeq(avail, LAMBDA r : r.date >= s /\ r.date <= e)

\* The values of a sequence.
Values(xs) == {xs[i] : i \in DOMAIN xs}

\* The sequence of table[keys[i]], the table computed first.
Lookup(keys, table) ==
    IF Computed(table) THEN [i \in DOMAIN keys |-> table[keys[i]]] ELSE <<>>

\* The two closes of every row.
Closes(w) == [i \in DOMAIN w |-> <<w[i].close_price, w[i].close_nav>>]

\* close_price / close_nav - 1.0
PremDiscOf(c) == FSub(FDiv(FOfInt(c[1]), FOfInt(c[2])), FOfInt(1))

\* window_data['prem_disc'] = close_price / close_nav - 1.0, row by row.  The
\* value of a row depends on its two closes only: it is computed once for
\* every pair of closes that occurs.
PremDisc(w) == Lookup(Closes(w), [c \in Values(Closes(w)) |-> PremDiscOf(c)])

\* acc + xs[first] + xs[first + stride] + ..., count terms added one after
\* the other from left to right.
RECURSIVE AddRun(_, _, _, _, _)
AddRun(acc, xs, first, stride, count) ==
    IF count <= 0 THEN acc
    ELSE IF count = 1 THEN FAdd(acc, xs[first])
    ELSE IF Computed(acc)
    THEN AddRun(AddRun(acc, xs, first, stride, count \div 2),
                xs, first + (count \div 2) * stride, stride, count - count \div 2)
    ELSE acc

\* numpy sums blocks of at most 128 values with 8 running sums.
PairwiseBlock == 128

\* The 8 running sums of a block of 8 * k values or more that starts after
\* xs[lo]: sum j takes every 8th value from xs[lo + j] on.
Lanes(xs, lo, k) == [j \in 1..8 |-> AddRun(xs[lo + j], xs, lo + j + 8, 8, k - 1)]

\* The n sums r[lo + 1 .. lo + n] added in pairs, n a power of 2:
\* ((r1 + r2) + (r3 + r4)) + ((r5 + r6) + (r7 + r8)) for n = 8.
RECURSIVE AddPairs(_, _, _)
AddPairs(r, lo, n) ==
    IF n = 1 THEN r[lo + 1]
    ELSE FAdd(AddPairs(r, lo, n \div 2), AddPairs(r, lo + n \div 2, n \div 2))

\* Where numpy splits n values, n above 128: at half, brought down to a
\* multiple of 8.
SplitAt(n) == (n \div 2) - ((n \div 2) % 8)

\* numpy's add.reduce of the n doubles xs[lo + 1 .. lo + n] (pairwise
\* summation), which Series.sum() uses.
RECURSIVE PairwiseSum(_, _, _)
PairwiseSum(xs, lo, n) ==
    IF n < 8 THEN AddRun(FZero, xs, lo + 1, 1, n)
    ELSE IF n <= PairwiseBlock
    THEN AddRun(AddPairs(Lanes(xs, lo, n \div 8), 0, 8), xs, lo + 8 * (n \div 8) + 1, 1, n % 8)
    ELSE FAdd(PairwiseSum(xs, lo, SplitAt(n)), PairwiseSum(xs, lo + SplitAt(n), n - SplitAt(n)))

\* Series.sum()
Sum(xs) == PairwiseSum(xs, 0, Len(xs))

\* Series.mean(): the sum divided by the count.  With bottleneck in use
\* (bn) the sum is bottleneck's, one addition after the other; otherwise it
\* is numpy's.
Mean(xs, bn) ==
    FDiv(IF bn THEN AddRun(FZero, xs, 1, 1, Len(xs)) ELSE Sum(xs), FOfInt(Len(xs)))

\* (x - avg) ** 2
SquaredDeviation(x, avg) == FMul(FSub(x, avg), FSub(x, avg))

\* ((prem_disc - avg_pd) ** 2).sum() / len(window_data); the square of a row
\* is computed once for every value of prem_disc that occurs.
Variance(xs, avg) ==
    FDiv(Sum(Lookup(xs, [v \in Values(xs) |-> SquaredDeviation(v, avg)])), FOfInt(Len(xs)))

\* Lines 166-196: the z-score and the record returned.
Active(w, avail, current_pd, avg_pd, stddev_pd) ==
    [status         |-> "active",
     z_score        |-> IF IsZero(stddev_pd)
                        THEN FZero
                        ELSE FDiv(FSub(current_pd, avg_pd), stddev_pd),
     current_pd     |-> current_pd,
     current_pd_pct |-> FMul(current_pd, FOfInt(100)),
     avg_pd         |-> avg_pd,
     avg_pd_pct     |-> FMul(avg_pd, FOfInt(100)),
     stddev_pd      |-> stddev_pd,
     stddev_pd_pct  |-> FMul(stddev_pd, FOfInt(100)),
     data_points    |-> Len(w),
     start_date     |-> strftime(ThreeYearStartDate(avail)),
     end_date       |-> strftime(ActualEndDate(avail))]

\* Lines 163-164: variance and stddev_pd about the mean avg_pd.
AboutMean(w, avail, prem_disc, avg_pd) ==
    Active(w, avail, prem_disc[Len(prem_disc)], avg_pd, FSqrt(Variance(prem_disc, avg_pd)))

\* Lines 156-159: current_pd and avg_pd of the column prem_disc.
OfPremDisc(w, avail, prem_disc, bn) ==
    IF Computed(prem_disc) THEN AboutMean(w, avail, prem_disc, Mean(prem_disc, bn)) ELSE None

\* Lines 152-196: the statistics of a window of at least 252 rows.
Statistics(w, avail, np, bn) ==
    IF ~np
    THEN \* pd.np.sqrt: pandas 2.0 removed the attribute pandas.np
         [status |-> "raised", error |-> "AttributeError"]
    ELSE OfPremDisc(w, avail, PremDisc(w), bn)

\* The value returned for the aligned rows a (lines 120-196).
ResultOf(a, cur, np, bn) ==
    LET avail == AvailableData(a, cur)
        w     == WindowData(avail)
    IN  IF a = <<>> THEN None
        ELSE IF avail = <<>> THEN None
        ELSE IF Len(w) < MinObs
             THEN [status |-> "insufficient_data",
                   data_points |-> Len(w),
                   required |-> MinObs]
        ELSE Statistics(w, avail, np, bn)

calculate_z_score_3yr(price, nav, cur, np, bn, left_order) ==
    ResultOf(Aligned(price, nav, left_order), cur, np, bn)

----------------------------------------------------------------------------
(* The series the environment may hand to the program.  A series is a run  *)
(* of n consecutive calendar days that ends on the as-of date, with closes *)
(* following a pattern, optionally with records at the edges of the        *)
(* 3-year window and after the as-of date, or with the last date given     *)
(* twice, and in ascending or descending order.                            *)

Reverse(s) == [i \in DOMAIN s |-> s[Len(s) + 1 - i]]

\* Closes whose quotient is no double: 21 / 20.
FundTwentieths == {"flat21", "step"}

CloseAt(pat, i, n) ==
    CASE pat = "flat1" -> 1
      [] pat = "flat2" -> 2
      [] pat = "flat20" -> 20
      [] pat = "flat21" -> 21
      [] pat = "step"  -> IF 4 * i <= 3 * n THEN 1 ELSE 2
      [] pat = "bad"   -> IF i = n THEN 0 ELSE IF i = 1 THEN -1 ELSE 1

Lengths == {0, 1} \cup {MinObs - 1 + k : k \in 0..MaxExtra}

\* n consecutive days that end on day E, with the closes of a pattern.
Run(n, pat, E) ==
    IF n = 0 THEN <<>>
    ELSE [i \in 1..n |-> [date  |-> strftime(E - n + i), close |-> CloseAt(pat, i, n)]]

\* Records at the edges of the 3-year window that starts on day S and after
\* its last day E are added to a run.
WithEdges(run, S, E) ==
    <<[date |-> strftime(S - 1), close |-> 2],
      [date |-> strftime(S), close |-> 2]>> \o run \o
    <<[date |-> strftime(E + 1), close |-> 2]>>

\* The last date of a run is given a second time, with another close.
WithDup(run, asof) ==
    run \o <<[date |-> asof, close |-> 3 - run[Len(run)].close]>>

WithExtras(run, ext, asof, E) ==
    CASE run = <<>>    -> run
      [] run # <<>> /\ ext = "none"  -> run
      [] run # <<>> /\ ext = "edges" -> WithEdges(run, MinusYears(E, LookbackYears), E)
      [] run # <<>> /\ ext = "dup"   -> WithDup(run, asof)

InOrder(series, order) == IF order = "asc" THEN series ELSE Reverse(series)

MakeSeries(n, pat, ext, order, asof) ==
    InOrder(WithExtras(Run(n, pat, to_datetime(asof)), ext, asof, to_datetime(asof)), order)

AsOfDates == {20240229, 20230615}

\* The fund series and the NAV series: a pattern of closes, and what is added.
FundShapes ==
    {<<"flat1", "none">>, <<"flat1", "edges">>, <<"flat1", "dup">>,
     <<"flat2", "none">>, <<"step", "none">>, <<"step", "edges">>,
     <<"bad", "edges">>}

NavShapes == {<<"flat1", "none">>, <<"flat1", "edges">>, <<"bad", "edges">>}

FundSeries(asof) ==
    {<<>>, MakeSeries(1, "flat1", "none", "asc", asof)} \cup
    {MakeSeries(n, sh[1], sh[2], "asc", asof) :
        n \in Lengths \ {0, 1}, sh \in FundShapes}

NavSeries(asof) ==
    {<<>>, MakeSeries(MinObs - 1, "flat1", "dup", "asc", asof)} \cup
    {MakeSeries(n, sh[1], sh[2], "asc", asof) :
        n \in Lengths \ {0, 1}, sh \in NavShapes}

\* The pairs of series of a call: any fund series with any NAV series, and
\* fund series over a NAV of 20.
SeriesPairs(asof) ==
    (FundSeries(asof) \X NavSeries(asof)) \cup
    {<<MakeSeries(MinObs, pat, "none", "asc", asof),
       MakeSeries(MinObs, "flat20", "none", "asc", asof)>> : pat \in FundTwentieths}

\* Whether Series.mean() goes through bottleneck: only where bottleneck is
\* installed, and only on a pandas older than the one that stopped using it
\* for the mean, which is older than the one that removed pandas.np.
Bottleneck(np) == IF np THEN BOOLEAN ELSE {FALSE}

\* Whether pd.merge keeps the order of the left rows: pandas 2.2 and later,
\* none of which has pandas.np (removed in 2.0).
MergeOrders(np) == IF np THEN {FALSE} ELSE BOOLEAN

NoCall == [how |-> "none"]

Unset == [status |-> "unset"]

----------------------------------------------------------------------------
(* SpecCalc: calculate_z_score_3yr as a function of its three arguments.   *)

InitCalc ==
    /\ pc = "call"
    /\ has_pd_np \in BOOLEAN
    /\ merge_in_left_order \in MergeOrders(has_pd_np)
    /\ use_bottleneck \in Bottleneck(has_pd_np)
    /\ current_date \in AsOfDates
    /\ \E pair \in SeriesPairs(current_date) :
         /\ price_data = pair[1]
         /\ nav_data = pair[2]
    /\ merged = <<>>
    /\ window_data = <<>>
    /\ result = Unset
    /\ base_result = Unset
    /\ base_merged = <<>>
    /\ base_price_data = <<>>
    /\ base_nav_data = <<>>
    /\ tickers = <<>>
    /\ idx = 0
    /\ db = <<>>
    /\ conn = "none"
    /\ clock = 0
    /\ outcome = NoCall

\* One call of calculate_z_score_3yr(price_data, nav_data, current_date).
Calculate ==
    /\ pc = "call"
    /\ \E a \in {Aligned(price_data, nav_data, merge_in_left_order)} :
       \E r \in {ResultOf(a, current_date, has_pd_np, use_bottleneck)} :
         /\ merged' = a
         /\ window_data' = WindowData(AvailableData(a, current_date))
         /\ result' = r
         /\ base_result' = r
         /\ base_merged' = a
         /\ base_price_data' = price_data
         /\ base_nav_data' = nav_data
    /\ pc' = "returned"
    /\ UNCHANGED <<has_pd_np, merge_in_left_order, use_bottleneck, price_data, nav_data, current_date,
                   tickers, idx, db, conn, clock, outcome>>

\* The series s with the records at positions i and j exchanged.
Exchanged(s, i, j) == [s EXCEPT ![i] = s[j], ![j] = s[i]]

\* Other orders of the records of a series: all of them reversed, the last
\* two exchanged, the first and the last exchanged.
Reorderings(s) ==
    IF Len(s) < 2 THEN {s}
    ELSE {Reverse(s), Exchanged(s, Len(s) - 1, Len(s)), Exchanged(s, 1, Len(s))}

\* A second call with the same records, those of one series in another order.
Reorder ==
    /\ pc = "returned"
    /\ \E which \in {"price", "nav"} :
       \E p \in IF which = "price" THEN Reorderings(price_data) ELSE {price_data} :
       \E n \in IF which = "nav" THEN Reorderings(nav_data) ELSE {nav_data} :
       \E a \in {Aligned(p, n, merge_in_left_order)} :
         /\ price_data' = p
         /\ nav_data' = n
         /\ merged' = a
         /\ window_data' = WindowData(AvailableData(a, current_date))
         /\ result' = ResultOf(a, current_date, has_pd_np, use_bottleneck)
    /\ pc' = "recalled"
    /\ UNCHANGED <<has_pd_np, merge_in_left_order, use_bottleneck, current_date, base_result, base_merged,
                   base_price_data, base_nav_data, tickers, idx, db, conn, clock, outcome>>

NextCalc == Calculate \/ Reorder

SpecCalc == InitCalc /\ [][NextCalc]_vars

----------------------------------------------------------------------------
(* Properties of calculate_z_score_3yr, checked under SpecCalc. *)

Returned == pc \in {"returned", "recalled"}

\* The date string k calendar years before the date string s, written on the
\* string itself: same month and day, Feb 29 moved to Feb 28 when that year
\* has none.
YearsBeforeStr(s, k) ==
    LET y == s \div 10000 - k
        md == s % 10000
    IN  IF md = 229 /\ ~IsLeap(y) THEN y * 10000 + 228 ELSE y * 10000 + md

\* C1: when a window is selected, its end is the latest aligned date that is
\* not after the as-of date, every row of the window lies between the end
\* minus exactly 3 calendar years and the end, and no aligned row of that range
\* is missing from the window.
C1_WindowBounds ==
    (Returned /\ \E i \in DOMAIN merged : strftime(merged[i].date) <= current_date) =>
        /\ window_data # <<>>
        /\ LET e     == window_data[Len(window_data)].date
               start == YearsBeforeStr(strftime(e), LookbackYears)
               inRange(r) == strftime(r.date) >= start /\ r.date <= e
           IN  /\ strftime(e) <= current_date
               /\ \A i \in DOMAIN merged :
                     strftime(merged[i].date) <= current_date => merged[i].date <= e
               /\ \A i \in DOMAIN window_data : inRange(window_data[i])
               /\ window_data = SelectSeq(merged, inRange)

\* C1 witness: a window of at least 252 rows was selected while an aligned row
\* older than the window's start and an aligned row after the as-of date exist.
C1_Witness ==
    /\ Returned
    /\ Len(window_data) >= MinObs
    /\ Len(window_data) + 2 = Len(merged)
    /\ strftime(merged[Len(merged)].date) > current_date
    /\ merged[1].date < window_data[1].date

\* C2: with a non-empty window, the status is 'active' (and a z_score is
\* returned) exactly when the window holds at least 252 rows; below 252 the
\* result is insufficient_data with data_points = n and required = 252.
C2_ActiveIffEnough ==
    (Returned /\ window_data # <<>>) =>
        /\ Len(window_data) >= 252 =>
              (result.status = "active" /\ "z_score" \in DOMAIN result)
        /\ Len(window_data) < 252 =>
              result = [status |-> "insufficient_data",
                        data_points |-> Len(window_data),
                        required |-> 252]

\* C2 on a pandas that still has pandas.np (before 2.0): the claim as stated.
C2_WithNp == has_pd_np => C2_ActiveIffEnough

C2_WithNp_Witness ==
    /\ Returned /\ has_pd_np
    /\ Len(window_data) = 252
    /\ result.status = "active"

RecordsOf(series) == {<<series[i].date, series[i].close>> : i \in DOMAIN series}

\* C3: every aligned row has a date and closes taken from a record of the fund
\* series and a record of the NAV series of that same date, both closes are
\* positive, and the rows counted and used for the statistics are aligned rows.
C3_AlignedFromValidRecords ==
    Returned =>
        LET P == RecordsOf(price_data)
            N == RecordsOf(nav_data)
            M == {merged[i] : i \in DOMAIN merged}
        IN  /\ \A i \in DOMAIN merged :
                 /\ merged[i].close_price > 0
                 /\ merged[i].close_nav > 0
                 /\ <<strftime(merged[i].date), merged[i].close_price>> \in P
                 /\ <<strftime(merged[i].date), merged[i].close_nav>> \in N
            /\ \A i \in DOMAIN window_data : window_data[i] \in M
            /\ result.status \in {"insufficient_data", "active"} =>
                 result.data_points = Len(window_data)

\* C3 witness: rows were aligned although a fund record and a NAV record with
\* a close <= 0 have a date present in the other series, and a fund date is
\* missing from the NAV series.
C3_Witness ==
    /\ Returned
    /\ window_data # <<>>
    /\ \E i \in DOMAIN price_data :
         price_data[i].close <= 0 /\ price_data[i].date \in Dates(nav_data)
    /\ \E i \in DOMAIN nav_data :
         nav_data[i].close <= 0 /\ nav_data[i].date \in Dates(price_data)
    /\ Dates(price_data) \ Dates(nav_data) # {}

\* All rows of w have the same premium/discount close_price / close_nav - 1.
ConstantPremium(w) ==
    \A i \in DOMAIN w :
        w[i].close_price * w[1].close_nav = w[1].close_price * w[i].close_nav

\* The premium/discount of a row, as a double.
PremiumOf(r) == FSub(FDiv(FOfInt(r.close_price), FOfInt(r.close_nav)), FOfInt(1))

\* The claim of C4, for every build.
C4_ConstantPremium ==
    (Returned /\ Len(window_data) >= 252 /\ ConstantPremium(window_data)) =>
        /\ result.status = "active"
        /\ IsZero(result.stddev_pd)
        /\ result.current_pd = PremiumOf(window_data[1])
        /\ result.avg_pd = PremiumOf(window_data[1])
        /\ IsZero(result.z_score)

\* C4: a window of at least 252 rows with one constant premium/discount c gives
\* status 'active', stddev 0, current_pd = avg_pd = c and z_score 0.0, and
\* never an error; here on a pandas that still has pandas.np, where the
\* statistics are computed.
C4_WithNp == has_pd_np => C4_ConstantPremium

\* Every premium/discount of the window is an integer: the sums are exact.
IntegerPremium(w) == \A i \in DOMAIN w : w[i].close_price % w[i].close_nav = 0

\* C4 where pandas.np exists and the doubles add without rounding.
C4_WithNp_Exact == (has_pd_np /\ IntegerPremium(window_data)) => C4_ConstantPremium

C4_WithNp_Exact_Witness ==
    /\ Returned /\ has_pd_np
    /\ Len(window_data) >= 252 /\ ConstantPremium(window_data)
    /\ IntegerPremium(window_data)
    /\ ~IsZero(PremiumOf(window_data[1]))

\* a and b differ by at most 2^-40 of b.
Near(a, b) == FLessEq(FAbs(FSub(a, b)), FMul(FAbs(b), Float(1, <<1>>, -40)))

\* C5: a window of n >= 252 rows whose premium/discount is not constant gives
\* z_score = (current_pd - avg_pd) / stddev_pd, with current_pd the value of
\* the row at the window's end date, avg_pd the mean over all n rows and
\* stddev_pd the population standard deviation (stddev_pd^2 * n is the sum of
\* the squared deviations from avg_pd), up to the rounding of the sums.
C5_ZScoreFormula ==
    (Returned /\ Len(window_data) >= 252 /\ ~ConstantPremium(window_data)) =>
        /\ result.status = "active"
        /\ LET n   == Len(window_data)
               x   == [i \in 1..n |-> PremiumOf(window_data[i])]
               avg == result.avg_pd
               sd  == result.stddev_pd
               sq  == [i \in 1..n |-> FMul(FSub(x[i], avg), FSub(x[i], avg))]
           IN  /\ result.data_points = n
               /\ strftime(window_data[n].date) = result.end_date
               /\ \A i \in 1..n : window_data[i].date <= window_data[n].date
               /\ result.current_pd = x[n]
               /\ Near(FMul(avg, FOfInt(n)), AddRun(FZero, x, 1, 1, n))
               /\ ~IsZero(sd) /\ sd.sgn = 1
               /\ Near(FMul(FMul(sd, sd), FOfInt(n)), AddRun(FZero, sq, 1, 1, n))
               /\ result.z_score = FDiv(FSub(result.current_pd, avg), sd)

\* C5 on a pandas that still has pandas.np.
C5_WithNp == has_pd_np => C5_ZScoreFormula

C5_WithNp_Witness ==
    /\ Returned /\ has_pd_np
    /\ Len(window_data) >= 252 /\ ~ConstantPremium(window_data)
    /\ result.status = "active"
    /\ result.current_pd # result.avg_pd
    /\ window_data[1].close_nav = 20

IsSortedByDate(rows) ==
    \A i \in 1..(Len(rows) - 1) : rows[i].date <= rows[i + 1].date

\* The claim of C8 in full: with the records of a series given in another
\* order, the aligned sequence is the same and ascending by date, and the
\* result is the same.
C8_OrderIndependent ==
    pc = "recalled" =>
        /\ IsSortedByDate(merged)
        /\ merged = base_merged
        /\ result = base_result

\* The dates of the two series stand where they stood in the first call: the
\* other order exchanges records of one date only.
SameDateColumns ==
    /\ DateKeys(price_data) = DateKeys(base_price_data)
    /\ DateKeys(nav_data) = DateKeys(base_nav_data)

\* C8: with records of the same date of a series given in another order (a
\* permutation of the series that leaves its column of dates as it was),
\* calculate_z_score_3yr returns the same result for the same as-of date.
C8_SameResult == (pc = "recalled" /\ SameDateColumns) => result = base_result

NoRepeatedDate(series) == Cardinality(Dates(series)) = Len(series)

\* C8 for series in which no date occurs twice.
C8_UniqueDates ==
    (NoRepeatedDate(price_data) /\ NoRepeatedDate(nav_data)) => C8_OrderIndependent

C8_UniqueDates_Witness ==
    /\ pc = "recalled"
    /\ NoRepeatedDate(price_data) /\ NoRepeatedDate(nav_data)
    /\ result.status = "active"
    /\ price_data[1].date > price_data[2].date

\* C9: the rows counted in the window (data_points) are at most the distinct
\* dates common to the two series; with fewer than 252 common dates the status
\* is insufficient_data, never active.
C9_AtMostCommonDates ==
    (Returned /\ window_data # <<>>) =>
        LET common == Cardinality(Dates(price_data) \cap Dates(nav_data))
        IN  /\ Len(window_data) <= common
            /\ "data_points" \in DOMAIN result => result.data_points <= common
            /\ common < 252 => result.status = "insufficient_data"

\* C9 for series in which no date occurs twice.
C9_UniqueDates ==
    (NoRepeatedDate(price_data) /\ NoRepeatedDate(nav_data)) => C9_AtMostCommonDates

C9_UniqueDates_Witness ==
    /\ Returned
    /\ NoRepeatedDate(price_data) /\ NoRepeatedDate(nav_data)
    /\ Len(price_data) >= 252 /\ Len(nav_data) >= 252
    /\ result.status = "insufficient_data"

----------------------------------------------------------------------------
(* Spec: a run of main over a list of (ticker, nav_symbol) pairs.          *)

TickerPairs == {<<"GAB", "XGABX">>, <<"pdi", "XPDIX">>}

\* str.upper()
Upper(t) == CASE t = "GAB" -> "GAB" [] t = "pdi" -> "PDI"

DbTickers == {"GAB", "PDI"}

NoRow == [present |-> FALSE]

NULL == [null |-> TRUE]

Score(v) == [null |-> FALSE, value |-> v]

Row(z, ts) == [present |-> TRUE, five_year_z_score |-> z,
               last_updated |-> ts, updated_at |-> ts]

\* A row written by an earlier run.
StaleRow == Row(Score(FOfInt(7)), 0)

\* etf_static before the run: one of the two tickers has a row.
InitialTables ==
    {[t \in DbTickers |-> IF t = has THEN StaleRow ELSE NoRow] : has \in DbTickers}

\* The payload of the Tiingo endpoint for a series: one record per day, its
\* 'date' a timestamp 'YYYY-MM-DDT00:00:00.000Z', here YYYYMMDD * 100 + hh.
Payload(series) ==
    [i \in DOMAIN series |-> [date |-> series[i].date * 100, close |-> series[i].close]]

\* Lines 64-76: the records with the date cut to its first 10 characters.
get_tiingo_prices(payload) ==
    [i \in DOMAIN payload |-> [date  |-> payload[i].date \div 100,
                               close |-> payload[i].close]]

\* What Tiingo may answer for the fund and for the NAV symbol; the empty list
\* also stands for a RequestException, which line 77 turns into [].
FundFetches(asof) ==
    {<<>>} \cup
    {MakeSeries(MinObs - 1 + k, "step", "edges", "asc", asof) : k \in 0..MaxExtra}

NavFetches(asof) ==
    {<<>>,
     MakeSeries(1, "bad", "none", "asc", asof),
     <<[date |-> strftime(to_datetime(asof) + 1), close |-> 1]>>,
     MakeSeries(MinObs + MaxExtra, "flat1", "none", "asc", asof)}

\* How a write can fail of its own: the server rejects the statement, or the
\* connection is lost.
Faults == {"none", "statement", "connection"}

\* datetime.now() of the run, as a date string.
RunDates == {20240229}

PairSeqs == UNION {[1..n -> TickerPairs] : n \in 1..MaxPairs}

Init ==
    /\ pc = "connect"
    /\ has_pd_np \in BOOLEAN
    /\ merge_in_left_order \in MergeOrders(has_pd_np)
    /\ use_bottleneck \in Bottleneck(has_pd_np)
    /\ current_date \in RunDates
    /\ tickers \in PairSeqs
    /\ idx = 0
    /\ db \in InitialTables
    /\ conn = "none"
    /\ clock = 1
    /\ outcome = NoCall
    /\ price_data = <<>>
    /\ nav_data = <<>>
    /\ merged = <<>>
    /\ window_data = <<>>
    /\ result = Unset
    /\ base_result = Unset
    /\ base_merged = <<>>
    /\ base_price_data = <<>>
    /\ base_nav_data = <<>>

build == <<has_pd_np, merge_in_left_order, use_bottleneck, current_date, tickers, base_result, base_merged,
           base_price_data, base_nav_data>>

\* The locals of fetch_and_store_zscore are gone when it returns.
DropLocals ==
    /\ price_data' = <<>>
    /\ nav_data' = <<>>
    /\ merged' = <<>>
    /\ window_data' = <<>>
    /\ result' = Unset

\* fetch_and_store_zscore returns (or its handler at line 274 has caught an
\* exception): back to the loop of main.
Return(how) ==
    /\ outcome' = [outcome EXCEPT !.how = how]
    /\ pc' = "loop"
    /\ DropLocals

\* Lines 291-314: psycopg2.connect succeeds, or fails and main returns.
Connect ==
    /\ pc = "connect"
    /\ \/ conn' = "ok" /\ pc' = "loop"
       \/ conn' = "none" /\ pc' = "done"
    /\ UNCHANGED <<build, idx, db, clock, outcome, price_data, nav_data, merged,
                   window_data, result>>

\* Line 323-324: the next pair; fetch_and_store_zscore is entered.
BeginPair ==
    /\ pc = "loop"
    /\ idx < Len(tickers)
    /\ idx' = idx + 1
    /\ outcome' = [ticker    |-> tickers[idx + 1][1],
                   how       |-> "running",
                   fetched   |-> <<>>,
                   db_before |-> db,
                   status    |-> "-",
                   z         |-> NULL,
                   ts        |-> 0,
                   fault     |-> "-"]
    /\ pc' = "fetch_price"
    /\ UNCHANGED <<build, db, conn, clock, price_data, nav_data, merged,
                   window_data, result>>

\* Mutant: the call goes on after an empty fund fetch.
PriceFetchReturns_Never(data) == FALSE

\* Line 221: if not price_data: return
PriceFetchReturns(data) == data = <<>>

\* Lines 219-223: the fund series is fetched; an empty list (nothing found, or
\* a RequestException caught at line 77) ends the call.
FetchPrice ==
    /\ pc = "fetch_price"
    /\ \E series \in FundFetches(current_date) :
       \E data \in {get_tiingo_prices(Payload(series))} :
         /\ IF PriceFetchReturns(data)
            THEN /\ outcome' = [outcome EXCEPT !.how = "no_price",
                                               !.fetched = Append(@, tickers[idx][1])]
                 /\ pc' = "loop"
                 /\ DropLocals
            ELSE /\ outcome' = [outcome EXCEPT !.fetched = Append(@, tickers[idx][1])]
                 /\ pc' = "fetch_nav"
                 /\ price_data' = data
                 /\ UNCHANGED <<nav_data, merged, window_data, result>>
    /\ UNCHANGED <<build, idx, db, conn, clock>>

\* Lines 225-229: the NAV series is fetched; an empty list ends the call.
FetchNav ==
    /\ pc = "fetch_nav"
    /\ \E series \in NavFetches(current_date) :
       \E data \in {get_tiingo_prices(Payload(series))} :
         /\ IF data = <<>>
            THEN /\ outcome' = [outcome EXCEPT !.how = "no_nav",
                                               !.fetched = Append(@, tickers[idx][2])]
                 /\ pc' = "loop"
                 /\ DropLocals
            ELSE /\ outcome' = [outcome EXCEPT !.fetched = Append(@, tickers[idx][2])]
                 /\ pc' = "compute"
                 /\ nav_data' = data
                 /\ UNCHANGED <<price_data, merged, window_data, result>>
    /\ UNCHANGED <<build, idx, db, conn, clock>>

\* Lines 66-74: a payload that is not a list of records with 'date' and 'close'
\* raises KeyError or TypeError, which get_tiingo_prices does not catch; the
\* handler at line 274 does.
FetchRaises ==
    /\ pc \in {"fetch_price", "fetch_nav"}
    /\ outcome' = [outcome EXCEPT
                     !.how = "error",
                     !.fetched = Append(@, tickers[idx][IF pc = "fetch_price" THEN 1 ELSE 2])]
    /\ pc' = "loop"
    /\ DropLocals
    /\ UNCHANGED <<build, idx, db, conn, clock>>

\* Lines 234-249: the calculation; None ends the call, an exception is caught
\* at line 274.
Compute ==
    /\ pc = "compute"
    /\ \E a \in {Aligned(price_data, nav_data, merge_in_left_order)} :
       \E r \in {ResultOf(a, current_date, has_pd_np, use_bottleneck)} :
         IF r = None THEN Return("no_result")
         ELSE IF r.status = "raised"
         THEN /\ outcome' = [outcome EXCEPT !.how = "error", !.status = "raised"]
              /\ pc' = "loop"
              /\ DropLocals
         ELSE /\ merged' = a
              /\ window_data' = WindowData(AvailableData(a, current_date))
              /\ result' = r
              /\ outcome' = [outcome EXCEPT !.status = r.status]
              /\ pc' = "store"
              /\ UNCHANGED <<price_data, nav_data>>
    /\ UNCHANGED <<build, idx, db, conn, clock>>

\* UPDATE etf_static SET five_year_z_score = z, last_updated = ts,
\* updated_at = ts WHERE ticker = t: the rows that match, and no others.
Update(table, t, z, ts) ==
    [k \in DOMAIN table |->
        IF k = t /\ table[k].present THEN Row(z, ts) ELSE table[k]]

\* Lines 251-277: cursor, execute, commit.  On a connection that is closed,
\* or whose transaction a failed statement has aborted, every statement
\* raises; nothing in the handler at line 274 rolls back or reconnects.
Store ==
    /\ pc = "store"
    /\ \E fault \in Faults :
         LET z  == IF result.status = "insufficient_data" THEN NULL
                   ELSE Score(result.z_score)
             ok == conn = "ok" /\ fault = "none"
         IN  /\ db' = IF ok THEN Update(db, Upper(tickers[idx][1]), z, clock) ELSE db
             /\ conn' = CASE conn = "closed" \/ fault = "connection" -> "closed"
                          [] conn # "closed" /\ fault = "statement" -> "aborted"
                          [] OTHER -> conn
             /\ outcome' = [outcome EXCEPT !.how = IF ok THEN "stored" ELSE "error",
                                            !.z = z,
                                            !.ts = clock,
                                            !.fault = fault]
    /\ clock' = clock + 1
    /\ pc' = "loop"
    /\ DropLocals
    /\ UNCHANGED <<build, idx>>

\* Lines 326-327: the connection is closed after the last pair.
Close ==
    /\ pc = "loop"
    /\ idx = Len(tickers)
    /\ conn' = "closed"
    /\ pc' = "done"
    /\ UNCHANGED <<build, idx, db, clock, outcome, price_data, nav_data, merged,
                   window_data, result>>

Next ==
    \/ Connect
    \/ BeginPair
    \/ FetchPrice
    \/ FetchNav
    \/ FetchRaises
    \/ Compute
    \/ Store
    \/ Close

Spec == Init /\ [][Next]_vars

----------------------------------------------------------------------------
(* Properties of fetch_and_store_zscore and main, checked under Spec. *)

\* fetch_and_store_zscore has just returned to the loop of main.
CallReturned == pc = "loop" /\ outcome.how \notin {"none", "running"}

\* C6: a failure of one pair is local to it: a later pair whose own write meets
\* no fault is recorded exactly as it would be without the failing pair.
C6_FailureIsLocal ==
    (CallReturned /\ outcome.fault = "none") =>
        /\ outcome.how = "stored"
        /\ db = Update(outcome.db_before, Upper(outcome.ticker), outcome.z, outcome.ts)

\* C6, the part that holds: main goes through every pair of the list, whatever
\* happened to the earlier ones.
C6_AllPairsProcessed == (pc = "done" /\ conn = "closed") => idx = Len(tickers)

C6_AllPairsProcessed_Witness ==
    /\ pc = "done" /\ idx = 2
    /\ outcome.how = "error" /\ outcome.fault = "none"

\* C7: once the write of an insufficient_data result has gone through, the
\* store holds for the ticker a row with a null score and the timestamp of the
\* computation; for an active result it holds the computed z_score.
C7_ResultIsStored ==
    (CallReturned /\ outcome.how = "stored") =>
        LET row == db[Upper(outcome.ticker)]
        IN  /\ row.present
            /\ row.last_updated = outcome.ts /\ row.updated_at = outcome.ts
            /\ outcome.status = "insufficient_data" => row.five_year_z_score = NULL
            /\ outcome.status = "active" =>
                 (row.five_year_z_score = outcome.z /\ ~outcome.z.null)

\* C7 for a ticker that has a row in etf_static before the call.
C7_WhenRowExists ==
    (CallReturned /\ outcome.db_before[Upper(outcome.ticker)].present)
        => C7_ResultIsStored

C7_WhenRowExists_Witness ==
    /\ CallReturned /\ outcome.how = "stored"
    /\ outcome.status = "insufficient_data"
    /\ outcome.db_before[Upper(outcome.ticker)] = StaleRow

NoDataOutcomes == {"no_price", "no_nav", "no_result"}

\* C10: a call that ends with no data (empty or failed fund fetch, empty or
\* failed NAV fetch, no common date with positive closes, no aligned date up
\* to the as-of date) leaves every row of the store as it was before the call,
\* and the NAV series is fetched only after a non-empty fund series.
C10_NoDataNoWrite ==
    /\ (CallReturned /\ outcome.how \in NoDataOutcomes) =>
          /\ db = outcome.db_before
          /\ outcome.fault = "-"
          /\ outcome.how = "no_price" => outcome.fetched = <<outcome.ticker>>
    /\ pc \in {"fetch_nav", "compute"} => price_data # <<>>
    /\ (pc # "connect" /\ outcome.how # "none" /\ Len(outcome.fetched) = 2) =>
          outcome.how # "no_price"

\* C10 witness: a call ended with no result after an earlier call of the run
\* had written a row, and the row is still as written.
C10_Witness ==
    /\ CallReturned /\ outcome.how = "no_result"
    /\ idx = 2
    /\ \E t \in DbTickers : db[t].present /\ db[t].last_updated > 0

====
